---- MODULE Spec2Model ----
(***************************************************************************)
(* pdfstraighten: the Document library (straighten.go) and the two         *)
(* command-line tools (cmd/straighten, cmd/dump).                          *)
(*                                                                         *)
(* Angles are whole degrees.  A page of a file is described by what the    *)
(* external collaborators (pdfcpu, go-fitz, cimg, docangle, textorient)    *)
(* answer for it; the library code is translated operator by operator.     *)
(***************************************************************************)
EXTENDS Integers, Sequences, FiniteSets, TLC

VARIABLES
    tool,       \* "straighten" | "dump" | "lib" (library called directly)
    pc,         \* position of main / of the library caller
    remaining,  \* dump: pdfFiles not yet visited by the loop
    file,       \* the file being processed: its pages and collaborator answers
    doc,        \* the Document object: fz, reader, NumPages
    handles,    \* per Document opened: how often fz and the file were closed
    exit,       \* how main returned: "" while running
    scanned,    \* result of IsScanned
    angles,     \* result of PageAngles (after main's loop over it)
    images,     \* result of StraightenedImages
    straight,   \* result of Straighten / buildNewPDF
    files,      \* names of the files written by os.WriteFile
    log,        \* collaborator calls made by the last library call, in order
    call,       \* arguments of a direct straightenImage call
    ret         \* result of a direct straightenImage call

vars == <<tool, pc, remaining, file, doc, handles, exit, scanned, angles,
          images, straight, files, log, call, ret>>

-----------------------------------------------------------------------------
(* Bounds *)

MaxPages == 3
MaxFiles == 2

-----------------------------------------------------------------------------
(* Values *)

Abs(x) == IF x < 0 THEN -x ELSE x

\* Fixed-point scale of the cosine / sine table.
Micro == 10^6

\* |cos|, |sin| of a whole-degree angle, scaled by Micro (math.Cos, math.Sin
\* followed by math.Abs; both are even in the sign of the angle).
cosA(angle) ==
    CASE Abs(angle) = 5   -> 996195
      [] Abs(angle) = 6   -> 994522
      [] Abs(angle) = 30  -> 866025
      [] Abs(angle) = 45  -> 707107
      [] Abs(angle) = 80  -> 173648
      [] Abs(angle) = 84  -> 104528
      [] Abs(angle) = 85  -> 87156
      [] Abs(angle) = 90  -> 0
      [] Abs(angle) = 91  -> 17452
      [] Abs(angle) = 95  -> 87156
      [] Abs(angle) = 96  -> 104528
      [] Abs(angle) = 100 -> 173648

sinA(angle) ==
    CASE Abs(angle) = 5   -> 87156
      [] Abs(angle) = 6   -> 104528
      [] Abs(angle) = 30  -> 500000
      [] Abs(angle) = 45  -> 707107
      [] Abs(angle) = 80  -> 984808
      [] Abs(angle) = 84  -> 994522
      [] Abs(angle) = 85  -> 996195
      [] Abs(angle) = 90  -> 1000000
      [] Abs(angle) = 91  -> 999848
      [] Abs(angle) = 95  -> 996195
      [] Abs(angle) = 96  -> 994522
      [] Abs(angle) = 100 -> 984808

NoImage == [id |-> "nil", page |-> 0, Width |-> 0, Height |-> 0, rot |-> 0]
NoBytes == [kind |-> "nil", page |-> 0, Width |-> 0, Height |-> 0, rot |-> 0,
            upright |-> FALSE]

\* The encoded bytes of the image embedded in a page, as stored in the file.
RawBytes(p, pageIdx) ==
    [kind |-> "raw", page |-> pageIdx, Width |-> p.Width, Height |-> p.Height,
     rot |-> 0, upright |-> FALSE]

-----------------------------------------------------------------------------
(* Collaborators *)

\* cimg.Decompress: the decoded image of a page.
Decompress(p, pageIdx) ==
    [id |-> "img", page |-> pageIdx, Width |-> p.Width, Height |-> p.Height,
     rot |-> 0]

\* textorient.Orient.MakeUpright: the same image, a new one, or an error.
MakeUpright(p, fixed) ==
    CASE p.up = "same"    -> [err |-> "", img |-> fixed]
      [] p.up = "changed" -> [err |-> "", img |-> [fixed EXCEPT !.id = "upright"]]
      [] p.up = "err"     -> [err |-> "MakeUpright", img |-> NoImage]

\* cimg.Compress: fresh JPEG bytes of an image, or an error.
Compress(p, img) ==
    IF p.enc = "err"
    THEN [err |-> "Compress", val |-> NoBytes]
    ELSE [err |-> "",
          val |-> [kind |-> "jpeg", page |-> img.page, Width |-> img.Width,
                   Height |-> img.Height, rot |-> img.rot,
                   upright |-> (img.id = "upright")]]

-----------------------------------------------------------------------------
(* straighten.go: rotateImage and straightenImage *)

cropLimitDegrees == 5

rotateImage_NoMinus90(img, angle) ==
    LET small == Abs(angle) <= cropLimitDegrees
        quarter == Abs(angle - 90) <= cropLimitDegrees
        newWidth ==
            IF small THEN img.Width
            ELSE IF quarter THEN img.Height
            ELSE (img.Width * cosA(angle) + img.Height * sinA(angle)) \div Micro
        newHeight ==
            IF small THEN img.Height
            ELSE IF quarter THEN img.Width
            ELSE (img.Width * sinA(angle) + img.Height * cosA(angle)) \div Micro
    IN  [id |-> "rot", page |-> img.page, Width |-> newWidth,
         Height |-> newHeight, rot |-> angle]

rotateImage(img, angle) ==
    LET small == Abs(angle) <= cropLimitDegrees
        quarter == \/ Abs(angle - 90) <= cropLimitDegrees
                   \/ Abs(angle + 90) <= cropLimitDegrees
        newWidth ==
            IF small THEN img.Width
            ELSE IF quarter THEN img.Height
            ELSE (img.Width * cosA(angle) + img.Height * sinA(angle)) \div Micro
        newHeight ==
            IF small THEN img.Height
            ELSE IF quarter THEN img.Width
            ELSE (img.Width * sinA(angle) + img.Height * cosA(angle)) \div Micro
    IN  [id |-> "rot", page |-> img.page, Width |-> newWidth,
         Height |-> newHeight, rot |-> angle]

straightenImage_RawWhenUnchanged(p, raw, img, angle) ==
    LET fixed == IF angle # 0 THEN rotateImage(img, -angle) ELSE img
        upright == MakeUpright(p, fixed)
    IN  IF upright.err # ""
        THEN [err |-> upright.err, val |-> NoBytes, fixed |-> fixed]
        ELSE IF upright.img = fixed
        THEN [err |-> "", val |-> raw, fixed |-> fixed]
        ELSE LET c == Compress(p, upright.img)
             IN  [err |-> c.err, val |-> c.val, fixed |-> fixed]

\* Returns the bytes, the error, and the local `fixed` (the image handed to
\* MakeUpright).
straightenImage(p, raw, img, angle) ==
    LET fixed == IF angle # 0 THEN rotateImage(img, -angle) ELSE img
        upright == MakeUpright(p, fixed)
    IN  IF upright.err # ""
        THEN [err |-> upright.err, val |-> NoBytes, fixed |-> fixed]
        ELSE IF upright.img = img
        THEN [err |-> "", val |-> raw, fixed |-> fixed]
        ELSE LET c == Compress(p, upright.img)
             IN  [err |-> c.err, val |-> c.val, fixed |-> fixed]

-----------------------------------------------------------------------------
(* straighten.go: page extraction and angle estimation *)

Stream(reader, data) == [Reader |-> reader, data |-> data]

\* pdfapi.ExtractImagesRaw for one page: an error, or a list of image maps
\* (a map is modelled as the sequence of its values).
ExtractImagesRaw(d, p) ==
    CASE d.reader # "file"    -> [err |-> "ExtractImagesRaw", images |-> <<>>]
      [] p.ext = "extractErr" -> [err |-> "ExtractImagesRaw", images |-> <<>>]
      [] p.ext = "count0"     -> [err |-> "", images |-> <<>>]
      [] p.ext = "count2"     -> [err |-> "", images |->
                                    << <<Stream("ok", "jpeg")>>, <<Stream("ok", "jpeg")>> >>]
      [] p.ext = "emptyMap"   -> [err |-> "", images |-> << <<>> >>]
      [] p.ext = "noReader"   -> [err |-> "", images |-> << <<Stream("nil", "")>> >>]
      [] p.ext = "readErr"    -> [err |-> "", images |-> << <<Stream("bad", "")>> >>]
      [] p.ext = "decodeErr"  -> [err |-> "", images |-> << <<Stream("ok", "corrupt")>> >>]
      [] p.ext = "ok"         -> [err |-> "", images |-> << <<Stream("ok", "jpeg")>> >>]

ImageResult(err, raw, img) == [err |-> err, raw |-> raw, img |-> img]

\* Returns raw image bytes, decompressed image, and error.
getImageOnPage(d, src, pageIdx) ==
    LET p == src.pages[pageIdx + 1]
        r == ExtractImagesRaw(d, p)
    IN  IF r.err # "" THEN ImageResult(r.err, NoBytes, NoImage)
        ELSE IF Len(r.images) # 1
        THEN ImageResult("unexpected number of results", NoBytes, NoImage)
        ELSE LET imageMap == r.images[1]
             IN  IF Len(imageMap) = 0
                 THEN ImageResult("No image found", NoBytes, NoImage)
                 ELSE LET img == imageMap[1]
                      IN  IF img.Reader = "nil"
                          THEN ImageResult("No image found", NoBytes, NoImage)
                          ELSE IF img.Reader = "bad"
                          THEN ImageResult("ReadAll", NoBytes, NoImage)
                          ELSE IF img.data = "corrupt"
                          THEN ImageResult("Decompress", NoBytes, NoImage)
                          ELSE ImageResult("", RawBytes(p, pageIdx),
                                           Decompress(p, pageIdx))

\* docangle.GetAngleWhiteLines on the page's image: the estimate the page
\* carries for the requested hypothesis set (the window is the caller's).
getImageAngle(src, pageIdx, maxAngle, include90Degrees) ==
    IF include90Degrees THEN src.pages[pageIdx + 1].est90
    ELSE src.pages[pageIdx + 1].est

Called(op, pageIdx, angle) == [op |-> op, page |-> pageIdx, angle |-> angle]

ListResult(err, val, lg) == [err |-> err, nil |-> (err # ""), val |-> val, log |-> lg]

-----------------------------------------------------------------------------
(* straighten.go: PageAngles *)

RECURSIVE PageAnglesLoop(_, _, _, _, _, _, _)
PageAnglesLoop(d, src, maxAngle, include90Degrees, page, acc, lg) ==
    IF ~(page < d.NumPages) THEN ListResult("", acc, lg)
    ELSE LET r == getImageOnPage(d, src, page)
             lg1 == Append(lg, Called("extract", page, 0))
         IN  IF r.err # "" THEN ListResult(r.err, <<>>, lg1)
             ELSE LET angle == getImageAngle(src, page, maxAngle, include90Degrees)
                  IN  PageAnglesLoop(d, src, maxAngle, include90Degrees, page + 1,
                                     Append(acc, angle),
                                     Append(lg1, Called("estimate", page, angle)))

PageAngles_KeepGoing(d, src, maxAngle, include90Degrees) ==
    LET ok == {i \in 0..(d.NumPages - 1) : getImageOnPage(d, src, i).err = ""}
        all == [i \in 1..d.NumPages |->
                   IF (i - 1) \in ok
                   THEN getImageAngle(src, i - 1, maxAngle, include90Degrees) ELSE 0]
        lg == [i \in 1..d.NumPages |-> Called("extract", i - 1, 0)]
    IN  ListResult("", all, lg)

\* Returns an array of page angles (in degrees) for the document.
PageAngles(d, src, maxAngle, include90Degrees) ==
    PageAnglesLoop(d, src, maxAngle, include90Degrees, 0, <<>>, <<>>)

-----------------------------------------------------------------------------
(* straighten.go: StraightenedImages, buildNewPDF, Straighten *)

RECURSIVE StraightenedImagesLoop(_, _, _, _, _, _)
StraightenedImagesLoop(d, src, pageAngles, page, acc, lg) ==
    IF ~(page < d.NumPages) THEN ListResult("", acc, lg)
    ELSE LET r == getImageOnPage(d, src, page)
             lg1 == Append(lg, Called("extract", page, 0))
         IN  IF r.err # "" THEN ListResult(r.err, <<>>, lg1)
             ELSE IF ~(page < Len(pageAngles))
             THEN ListResult("panic: index out of range", <<>>, lg1)
             ELSE LET angle == pageAngles[page + 1]
                      f == straightenImage(src.pages[page + 1], r.raw, r.img, angle)
                      lg2 == Append(lg1, Called("transform", page, angle))
                  IN  IF f.err # "" THEN ListResult(f.err, <<>>, lg2)
                      ELSE StraightenedImagesLoop(d, src, pageAngles, page + 1,
                                                  Append(acc, f.val), lg2)

RECURSIVE StraightenedImagesPrepend(_, _, _, _, _, _)
StraightenedImagesPrepend(d, src, pageAngles, page, acc, lg) ==
    IF ~(page < d.NumPages) THEN ListResult("", acc, lg)
    ELSE LET r == getImageOnPage(d, src, page)
             lg1 == Append(lg, Called("extract", page, 0))
         IN  IF r.err # "" THEN ListResult(r.err, <<>>, lg1)
             ELSE IF ~(page < Len(pageAngles))
             THEN ListResult("panic: index out of range", <<>>, lg1)
             ELSE LET angle == pageAngles[page + 1]
                      f == straightenImage(src.pages[page + 1], r.raw, r.img, angle)
                      lg2 == Append(lg1, Called("transform", page, angle))
                  IN  IF f.err # "" THEN ListResult(f.err, <<>>, lg2)
                      ELSE StraightenedImagesPrepend(d, src, pageAngles, page + 1,
                                                     <<f.val>> \o acc, lg2)

StraightenedImages_Reversed(d, src, pageAngles) ==
    StraightenedImagesPrepend(d, src, pageAngles, 0, <<>>, <<>>)

\* Given the list of page angles, straighten each image and return the list
\* of compressed images.
StraightenedImages(d, src, pageAngles) ==
    StraightenedImagesLoop(d, src, pageAngles, 0, <<>>, <<>>)

\* pdfapi.ImportImages: one output page per image reader, in the order given.
ImportImages(src, imageReaders) ==
    IF src.fault = "import"
    THEN [err |-> "ImportImages", pages |-> <<>>]
    ELSE [err |-> "", pages |-> imageReaders]

\* Create a new PDF from the given images.
buildNewPDF(src, imgs) ==
    LET imageReaders == [i \in 1..Len(imgs) |-> imgs[i]]
        r == ImportImages(src, imageReaders)
    IN  IF r.err # "" THEN ListResult(r.err, <<>>, <<>>)
        ELSE ListResult("", r.pages, <<>>)

\* Returns the assembled document together with the image list it was built
\* from (the local straightImages).
Straighten(d, src, pageAngles) ==
    LET straightImages == StraightenedImages(d, src, pageAngles)
    IN  IF straightImages.err # ""
        THEN [images |-> straightImages,
              pdf |-> ListResult(straightImages.err, <<>>, <<>>)]
        ELSE [images |-> straightImages, pdf |-> buildNewPDF(src, straightImages.val)]

------------------------------------------------------------------------------
(* straighten.go: StraightenOnePass *)

RECURSIVE StraightenOnePassLoop90(_, _, _, _, _, _)
StraightenOnePassLoop90(d, src, maxAngle, page, acc, lg) ==
    IF ~(page < d.NumPages) THEN ListResult("", acc, lg)
    ELSE LET r == getImageOnPage(d, src, page)
             lg1 == Append(lg, Called("extract", page, 0))
         IN  IF r.err # "" THEN ListResult(r.err, <<>>, lg1)
             ELSE LET angle == getImageAngle(src, page, maxAngle, TRUE)
                      lg2 == Append(lg1, Called("estimate", page, angle))
                      f == straightenImage(src.pages[page + 1], r.raw, r.img, angle)
                      lg3 == Append(lg2, Called("transform", page, angle))
                  IN  IF f.err # "" THEN ListResult(f.err, <<>>, lg3)
                      ELSE StraightenOnePassLoop90(d, src, maxAngle, page + 1,
                                                   Append(acc, f.val), lg3)

StraightenOnePass_Tests90(d, src, maxAngle) ==
    LET straightImages == StraightenOnePassLoop90(d, src, maxAngle, 0, <<>>, <<>>)
    IN  IF straightImages.err # ""
        THEN [images |-> straightImages,
              pdf |-> ListResult(straightImages.err, <<>>, <<>>)]
        ELSE [images |-> straightImages, pdf |-> buildNewPDF(src, straightImages.val)]

RECURSIVE StraightenOnePassLoop(_, _, _, _, _, _)
StraightenOnePassLoop(d, src, maxAngle, page, acc, lg) ==
    IF ~(page < d.NumPages) THEN ListResult("", acc, lg)
    ELSE LET r == getImageOnPage(d, src, page)
             lg1 == Append(lg, Called("extract", page, 0))
         IN  IF r.err # "" THEN ListResult(r.err, <<>>, lg1)
             ELSE LET angle == getImageAngle(src, page, maxAngle, FALSE)
                      lg2 == Append(lg1, Called("estimate", page, angle))
                      f == straightenImage(src.pages[page + 1], r.raw, r.img, angle)
                      lg3 == Append(lg2, Called("transform", page, angle))
                  IN  IF f.err # "" THEN ListResult(f.err, <<>>, lg3)
                      ELSE StraightenOnePassLoop(d, src, maxAngle, page + 1,
                                                 Append(acc, f.val), lg3)

\* Compute angles and produce the straightened PDF in a single pass; returned
\* with the image list it was built from, as Straighten is.
StraightenOnePass(d, src, maxAngle) ==
    LET straightImages == StraightenOnePassLoop(d, src, maxAngle, 0, <<>>, <<>>)
    IN  IF straightImages.err # ""
        THEN [images |-> straightImages,
              pdf |-> ListResult(straightImages.err, <<>>, <<>>)]
        ELSE [images |-> straightImages, pdf |-> buildNewPDF(src, straightImages.val)]

-----------------------------------------------------------------------------
(* straighten.go: IsScanned *)

BoolResult(val, err) == [val |-> val, err |-> err]

\* pdfapi.Images over all pages: an error, or one image map per page.
Images(d, src) ==
    IF d.reader # "file" \/ src.fault = "images"
    THEN [err |-> "Images", allImages |-> <<>>]
    ELSE [err |-> "",
          allImages |-> [i \in 1..Len(src.pages) |->
                            [k \in 1..src.pages[i].nimg |->
                                [Width |-> src.pages[i].Width,
                                 Height |-> src.pages[i].Height]]]]

\* fitz.Document.Text for one page.
Text(src, i) ==
    IF src.pages[i + 1].text = "ERR"
    THEN [err |-> "Text", txt |-> ""]
    ELSE [err |-> "", txt |-> src.pages[i + 1].text]

tooSmall_OffByOne(img) == img.Width * img.Height <= 800 * 600

tooSmall(img) == img.Width * img.Height < 800 * 600

\* The loop over allImages: FALSE when it returns false, TRUE when it falls
\* through to the text loop.
imagesLoop(allImages) ==
    \A i \in 1..Len(allImages) :
        /\ Len(allImages[i]) = 1
        /\ \A k \in 1..Len(allImages[i]) : ~tooSmall(allImages[i][k])

RECURSIVE textLoop_ErrorAsFalse(_, _, _)
textLoop_ErrorAsFalse(d, src, i) ==
    IF ~(i < d.NumPages) THEN BoolResult(TRUE, "")
    ELSE LET t == Text(src, i)
         IN  IF t.err # "" THEN BoolResult(FALSE, "")
             ELSE IF t.txt # "" THEN BoolResult(FALSE, "")
             ELSE textLoop_ErrorAsFalse(d, src, i + 1)

RECURSIVE textLoop(_, _, _)
textLoop(d, src, i) ==
    IF ~(i < d.NumPages) THEN BoolResult(TRUE, "")
    ELSE LET t == Text(src, i)
         IN  IF t.err # "" THEN BoolResult(FALSE, t.err)
             ELSE IF t.txt # "" THEN BoolResult(FALSE, "")
             ELSE textLoop(d, src, i + 1)

\* Returns true if this PDF is a scanned document.
IsScanned(d, src) ==
    LET r == Images(d, src)
    IN  IF r.err # "" THEN BoolResult(FALSE, r.err)
        ELSE IF ~imagesLoop(r.allImages) THEN BoolResult(FALSE, "")
        ELSE textLoop(d, src, 0)

-----------------------------------------------------------------------------
(* straighten.go: the Document object *)

NoDocument == [fz |-> "nil", reader |-> "nil", NumPages |-> 0]
NoHandles == [file |-> 0, fz |-> 0, fileOpen |-> FALSE]

newDocument(reader, src) ==
    [fz |-> "open", reader |-> reader, NumPages |-> Len(src.pages)]

\* Load a PDF from a file.  The error of os.Open is dropped: the reader then
\* holds a nil *os.File.
NewDocumentFromFile(src) ==
    IF src.fault = "fitz"
    THEN [err |-> "fitz.New", d |-> NoDocument, h |-> NoHandles]
    ELSE IF src.fault = "open"
    THEN [err |-> "", d |-> newDocument("nilfile", src),
          h |-> [file |-> 0, fz |-> 0, fileOpen |-> FALSE]]
    ELSE [err |-> "", d |-> newDocument("file", src),
          h |-> [file |-> 0, fz |-> 0, fileOpen |-> TRUE]]

\* Close: the Document afterwards, and the closes counted on its handles
\* (closing a nil *os.File releases nothing).
Close(d, h) ==
    LET h1 == IF d.reader = "file" THEN [h EXCEPT !.file = @ + 1] ELSE h
        d1 == IF d.reader # "nil" THEN [d EXCEPT !.reader = "nil"] ELSE d
        h2 == IF d1.fz # "nil" THEN [h1 EXCEPT !.fz = @ + 1] ELSE h1
        d2 == IF d1.fz # "nil" THEN [d1 EXCEPT !.fz = "nil"] ELSE d1
    IN  [d |-> d2, h |-> h2]

-----------------------------------------------------------------------------
(* Files: pages and the collaborators' answers for them *)

Page(nimg, w, h, text, ext, est, est90, up, enc) ==
    [nimg |-> nimg, Width |-> w, Height |-> h, text |-> text, ext |-> ext,
     est |-> est, est90 |-> est90, up |-> up, enc |-> enc]

\* A page of a scan: one 800x600 image, no text, everything succeeds.
ScanPage(est90, up, enc) == Page(1, 800, 600, "", "ok", 0, est90, up, enc)

File(pages, fault) == [pages |-> pages, fault |-> fault]

NoFile == File(<<>>, "none")

SeqsUpTo(S, n) == UNION {[1..k -> S] : k \in 0..n}

\* Pages of the files given to the single-file tool.
ToolPages ==
    {ScanPage(a, "same", "ok") : a \in {0, 1, 80, 91, 100}}
    \cup {ScanPage(0, "changed", "ok"), ScanPage(1, "err", "ok")}
    \cup {Page(2, 800, 600, "", "ok", 0, 0, "same", "ok"),
          Page(1, 799, 600, "", "ok", 0, 0, "same", "ok"),
          Page(1, 800, 600, "t", "ok", 0, 0, "same", "ok"),
          Page(1, 800, 600, "ERR", "ok", 0, 0, "same", "ok"),
          Page(1, 800, 600, "", "decodeErr", 0, 0, "same", "ok")}

\* Pages of the files found by the batch tool.
DumpPages ==
    {ScanPage(0, "same", "ok"), ScanPage(1, "same", "ok"), ScanPage(1, "err", "ok"),
     Page(1, 800, 600, "t", "ok", 0, 0, "same", "ok"),
     Page(1, 800, 600, "ERR", "ok", 0, 0, "same", "ok"),
     Page(1, 800, 600, "", "decodeErr", 0, 0, "same", "ok")}

ToolFaults == {"none", "fitz", "open", "images", "import", "write"}

ToolFiles == {File(ps, f) : ps \in SeqsUpTo(ToolPages, MaxPages), f \in ToolFaults}

DumpFiles == {File(ps, f) : ps \in SeqsUpTo(DumpPages, MaxPages), f \in ToolFaults}

NoList == [err |-> "", nil |-> TRUE, val |-> <<>>, log |-> <<>>]
NoCall == [p |-> ScanPage(0, "same", "ok"), angle |-> 0]
NoRet == [err |-> "", val |-> NoBytes, fixed |-> NoImage]

------------------------------------------------------------------------------
(* The tools' loops over os.WriteFile and check(err) *)

\* Which write fails, 0 for none: on a file system that refuses writes any
\* one of them can be the first to fail.
FailingWrites(src, names) ==
    IF src.fault = "write" /\ Len(names) > 0 THEN 1..Len(names) ELSE {0}

writeFiles_KeepsGoing(fs, names, failAt) ==
    [files |-> fs \o names, err |-> IF failAt = 0 THEN "" ELSE "WriteFile"]

\* The files before the failing write are on disk when check panics.
writeFiles(fs, names, failAt) ==
    IF failAt = 0
    THEN [files |-> fs \o names, err |-> ""]
    ELSE [files |-> fs \o SubSeq(names, 1, failAt - 1), err |-> "WriteFile"]

-----------------------------------------------------------------------------
(* cmd/straighten/straighten.go: main *)

\* maxAngle, in tenths of a degree
maxAngle == 26
allow90Degrees_Off == FALSE
allow90Degrees == TRUE
outputPDF == TRUE

\* The loop over the angles: the count of non-zero angles, and the angles
\* as the loop leaves them.
nRotated_CountsEveryPage(as) == Len(as)

nRotated(as) == Cardinality({i \in 1..Len(as) : as[i] # 0})

mainLoop(as) ==
    [i \in 1..Len(as) |->
        IF as[i] # 0 /\ ~allow90Degrees /\ (as[i] > 80 /\ as[i] < 100)
        THEN as[i] - 90 ELSE as[i]]

\* A return (or panic) of main after `defer doc.Close()`.
Return(how) ==
    LET c == Close(doc, handles[Len(handles)])
    IN  /\ pc' = "exit"
        /\ exit' = how
        /\ doc' = c.d
        /\ handles' = [handles EXCEPT ![Len(handles)] = c.h]

S_Open ==
    /\ tool = "straighten" /\ pc = "start"
    /\ \E src \in ToolFiles :
          LET r == NewDocumentFromFile(src)
          IN  /\ file' = src
              /\ doc' = r.d
              /\ IF r.err # ""
                 THEN pc' = "exit" /\ exit' = "panic" /\ handles' = handles
                 ELSE pc' = "opened" /\ exit' = exit /\ handles' = Append(handles, r.h)
    /\ UNCHANGED <<tool, remaining, scanned, angles, images, straight, files,
                   log, call, ret>>

S_IsScanned ==
    /\ tool = "straighten" /\ pc = "opened"
    /\ LET r == IsScanned(doc, file)
       IN  /\ scanned' = r
           /\ IF r.err # "" THEN Return("error checking")
              ELSE IF ~r.val THEN Return("not scanned")
              ELSE pc' = "scanned" /\ UNCHANGED <<exit, doc, handles>>
    /\ UNCHANGED <<tool, remaining, file, angles, images, straight, files, log,
                   call, ret>>

S_PageAngles ==
    /\ tool = "straighten" /\ pc = "scanned"
    /\ LET r == PageAngles(doc, file, maxAngle, TRUE)
       IN  /\ log' = r.log
           /\ IF r.err # ""
              THEN angles' = r /\ Return("panic")
              ELSE /\ angles' = [r EXCEPT !.val = mainLoop(r.val)]
                   /\ IF nRotated(r.val) = 0 THEN Return("already straight")
                      ELSE pc' = "straightening" /\ UNCHANGED <<exit, doc, handles>>
    /\ UNCHANGED <<tool, remaining, file, scanned, images, straight, files,
                   call, ret>>

\* Straighten and os.WriteFile (whose error is dropped), or, without
\* outputPDF, StraightenedImages and one checked os.WriteFile per page.
S_Straighten ==
    /\ tool = "straighten" /\ pc = "straightening"
    /\ IF outputPDF
       THEN LET r == Straighten(doc, file, angles.val)
            IN  /\ images' = r.images
                /\ straight' = r.pdf
                /\ log' = r.images.log
                /\ IF r.pdf.err # ""
                   THEN files' = files /\ Return("panic")
                   ELSE /\ files' = IF file.fault = "write" THEN files
                                    ELSE Append(files, <<"straightened.pdf">>)
                        /\ Return("ok")
       ELSE LET r == StraightenedImages(doc, file, angles.val)
            IN  /\ images' = r
                /\ straight' = straight
                /\ log' = r.log
                /\ IF r.err # "" THEN files' = files /\ Return("panic")
                   ELSE LET names == [i \in 1..Len(r.val) |->
                                         <<"straightened_page", i>>]
                        IN  \E failAt \in FailingWrites(file, names) :
                               LET w == writeFiles(files, names, failAt)
                               IN  /\ files' = w.files
                                   /\ Return(IF w.err # "" THEN "panic" ELSE "ok")
    /\ UNCHANGED <<tool, remaining, file, scanned, angles, call, ret>>

-----------------------------------------------------------------------------
(* cmd/dump/dump.go: main *)

\* The loop's locals go out of scope when it moves to the next pdfFile.
NextFile ==
    /\ pc' = "start"
    /\ remaining' = remaining - 1
    /\ file' = NoFile
    /\ doc' = NoDocument
    /\ scanned' = BoolResult(FALSE, "")
    /\ angles' = NoList
    /\ log' = <<>>

Panic == pc' = "exit" /\ exit' = "panic"

D_Open ==
    /\ tool = "dump" /\ pc = "start" /\ remaining > 0
    /\ \E src \in DumpFiles :
          LET r == NewDocumentFromFile(src)
          IN  /\ file' = src
              /\ doc' = r.d
              /\ IF r.err # ""
                 THEN Panic /\ handles' = handles
                 ELSE pc' = "opened" /\ exit' = exit /\ handles' = Append(handles, r.h)
    /\ UNCHANGED <<tool, remaining, scanned, angles, images, straight, files,
                   log, call, ret>>

D_IsScanned ==
    /\ tool = "dump" /\ pc = "opened"
    /\ LET r == IsScanned(doc, file)
       IN  IF r.err # ""
           THEN Panic /\ scanned' = r
                /\ UNCHANGED <<remaining, file, doc, angles, log>>
           ELSE IF ~r.val THEN NextFile /\ exit' = exit
           ELSE pc' = "scanned" /\ scanned' = r
                /\ UNCHANGED <<exit, remaining, file, doc, angles, log>>
    /\ UNCHANGED <<tool, handles, images, straight, files, call, ret>>

D_PageAngles ==
    /\ tool = "dump" /\ pc = "scanned"
    /\ LET r == PageAngles(doc, file, 25, TRUE)
       IN  /\ angles' = r
           /\ log' = r.log
           /\ IF r.err # "" THEN Panic ELSE pc' = "angles" /\ exit' = exit
    /\ UNCHANGED <<tool, remaining, file, doc, handles, scanned, images,
                   straight, files, call, ret>>

D_StraightenedImages ==
    /\ tool = "dump" /\ pc = "angles"
    /\ LET r == StraightenedImages(doc, file, angles.val)
           outputIdx == Len(files) + 1
           names == [i \in 1..Len(r.val) |-> <<"jpg", outputIdx + i - 1, i>>]
       IN  IF r.err # ""
           THEN /\ Panic
                /\ images' = r
                /\ UNCHANGED <<remaining, file, doc, scanned, angles, log, files>>
           ELSE \E failAt \in FailingWrites(file, names) :
                   LET w == writeFiles(files, names, failAt)
                   IN  /\ files' = w.files
                       /\ IF w.err # ""
                          THEN /\ Panic
                               /\ images' = r
                               /\ UNCHANGED <<remaining, file, doc, scanned,
                                              angles, log>>
                          ELSE /\ images' = NoList
                               /\ NextFile /\ exit' = exit
    /\ UNCHANGED <<tool, handles, straight, call, ret>>

D_Done ==
    /\ tool = "dump" /\ pc = "start" /\ remaining = 0
    /\ pc' = "exit" /\ exit' = "ok"
    /\ UNCHANGED <<tool, remaining, file, doc, handles, scanned, angles, images,
                   straight, files, log, call, ret>>

-----------------------------------------------------------------------------
(* The tools *)

Init ==
    /\ tool \in {"straighten", "dump"}
    /\ pc = "start"
    /\ remaining \in IF tool = "dump" THEN 0..MaxFiles ELSE {1}
    /\ file = NoFile
    /\ doc = NoDocument
    /\ handles = <<>>
    /\ exit = ""
    /\ scanned = BoolResult(FALSE, "")
    /\ angles = NoList
    /\ images = NoList
    /\ straight = NoList
    /\ files = <<>>
    /\ log = <<>>
    /\ call = NoCall
    /\ ret = NoRet

Next ==
    \/ S_Open
    \/ S_IsScanned
    \/ S_PageAngles
    \/ S_Straighten
    \/ D_Open
    \/ D_IsScanned
    \/ D_PageAngles
    \/ D_StraightenedImages
    \/ D_Done

Spec == Init /\ [][Next]_vars

-----------------------------------------------------------------------------
(* straightenImage called directly, over a range of angles and images *)

AngleSet ==
    {0, 1, -1, 5, -5, 6, -6, 30, -30, 45, 80, 84, -84, 85, -85, 90, -90, 91,
     95, -95, 96, -96, 100}

ImagePages ==
    {Page(1, wh[1], wh[2], "", "ok", 0, 0, up, enc) :
        wh \in {<<800, 600>>, <<600, 800>>, <<799, 600>>},
        up \in {"same", "changed", "err"}, enc \in {"ok", "err"}}

InitImage ==
    /\ tool = "lib"
    /\ pc = "image"
    /\ call \in {[p |-> p, angle |-> a] : p \in ImagePages, a \in AngleSet}
    /\ remaining = 0
    /\ file = NoFile
    /\ doc = NoDocument
    /\ handles = <<>>
    /\ exit = ""
    /\ scanned = BoolResult(FALSE, "")
    /\ angles = NoList
    /\ images = NoList
    /\ straight = NoList
    /\ files = <<>>
    /\ log = <<>>
    /\ ret = NoRet

CallStraightenImage ==
    /\ tool = "lib" /\ pc = "image"
    /\ ret' = straightenImage(call.p, RawBytes(call.p, 0), Decompress(call.p, 0),
                              call.angle)
    /\ pc' = "image done"
    /\ UNCHANGED <<tool, remaining, file, doc, handles, exit, scanned, angles,
                   images, straight, files, log, call>>

NextImage == CallStraightenImage

SpecImage == InitImage /\ [][NextImage]_vars

-----------------------------------------------------------------------------
(* IsScanned called directly, over a range of files *)

ClassifyPages ==
    {Page(n, wh[1], wh[2], t, "ok", 0, 0, "same", "ok") :
        n \in 0..2, wh \in {<<800, 600>>, <<799, 600>>}, t \in {"", "t", "ERR"}}

ClassifyFiles ==
    {File(ps, f) : ps \in SeqsUpTo(ClassifyPages, MaxPages), f \in {"none", "images"}}

InitClassify ==
    /\ tool = "lib"
    /\ pc = "classify"
    /\ file \in ClassifyFiles
    /\ doc = newDocument("file", file)
    /\ handles = <<[file |-> 0, fz |-> 0, fileOpen |-> TRUE]>>
    /\ remaining = 0
    /\ exit = ""
    /\ scanned = BoolResult(FALSE, "")
    /\ angles = NoList
    /\ images = NoList
    /\ straight = NoList
    /\ files = <<>>
    /\ log = <<>>
    /\ call = NoCall
    /\ ret = NoRet

CallIsScanned ==
    /\ tool = "lib" /\ pc = "classify"
    /\ scanned' = IsScanned(doc, file)
    /\ pc' = "classify done"
    /\ UNCHANGED <<tool, remaining, file, doc, handles, exit, angles, images,
                   straight, files, log, call, ret>>

NextClassify == CallIsScanned

SpecClassify == InitClassify /\ [][NextClassify]_vars

-----------------------------------------------------------------------------
(* PageAngles and Straighten called directly, over a range of files *)

LibPages ==
    {Page(1, 800, 600, "", e, 0, 0, "same", "ok") :
        e \in {"extractErr", "count0", "count2", "emptyMap", "noReader",
               "readErr", "decodeErr"}}
    \cup {Page(1, 800, 600, "", "ok", a[1], a[2], "same", "ok") :
             a \in {<<0, 0>>, <<1, 1>>, <<1, 91>>}}
    \cup {Page(1, 800, 600, "", "ok", 0, 0, "changed", "ok"),
          Page(1, 800, 600, "", "ok", 0, 0, "err", "ok"),
          Page(1, 800, 600, "", "ok", 0, 0, "same", "err"),
          Page(1, 600, 800, "", "ok", 0, 0, "same", "ok")}

LibFiles == {File(ps, f) : ps \in SeqsUpTo(LibPages, MaxPages), f \in {"none", "import"}}

\* Angles a caller passes to Straighten.
LibAngles == {0, 90}

InitLib ==
    /\ tool = "lib"
    /\ pc = "lib"
    /\ file \in LibFiles
    /\ doc = newDocument("file", file)
    /\ handles = <<[file |-> 0, fz |-> 0, fileOpen |-> TRUE]>>
    /\ remaining = 0
    /\ exit = ""
    /\ scanned = BoolResult(FALSE, "")
    /\ angles = NoList
    /\ images = NoList
    /\ straight = NoList
    /\ files = <<>>
    /\ log = <<>>
    /\ call = NoCall
    /\ ret = NoRet

CallPageAngles ==
    /\ tool = "lib" /\ pc = "lib"
    /\ LET r == PageAngles(doc, file, 25, TRUE)
       IN  angles' = r /\ log' = r.log
    /\ pc' = "angles done"
    /\ UNCHANGED <<tool, remaining, file, doc, handles, exit, scanned, images,
                   straight, files, call, ret>>

\* The caller's pageAngles: one per page, or none at all.
CallStraighten ==
    /\ tool = "lib" /\ pc = "lib"
    /\ \E n \in {doc.NumPages, 0} :
       \E pageAngles \in [1..n -> LibAngles] :
          LET r == Straighten(doc, file, pageAngles)
          IN  /\ angles' = [err |-> "", nil |-> FALSE, val |-> pageAngles, log |-> <<>>]
              /\ images' = r.images
              /\ straight' = r.pdf
              /\ log' = r.images.log
    /\ pc' = "straighten done"
    /\ UNCHANGED <<tool, remaining, file, doc, handles, exit, scanned, files,
                   call, ret>>

CallStraightenOnePass ==
    /\ tool = "lib" /\ pc = "lib"
    /\ LET r == StraightenOnePass(doc, file, 25)
       IN  /\ images' = r.images
           /\ straight' = r.pdf
           /\ log' = r.images.log
    /\ pc' = "onepass done"
    /\ UNCHANGED <<tool, remaining, file, doc, handles, exit, scanned, angles,
                   files, call, ret>>

NextLib ==
    \/ CallPageAngles
    \/ CallStraighten
    \/ CallStraightenOnePass

SpecLib == InitLib /\ [][NextLib]_vars

-----------------------------------------------------------------------------
(* Properties of straightenImage and rotateImage (SpecImage) *)

InBand(a) ==
    \/ Abs(a) <= 5
    \/ Abs(a - 90) <= 5
    \/ Abs(a + 90) <= 5

\* C1: whenever straightenImage is given the angle 0 it returns the page's
\* original raw bytes, and no error, whatever MakeUpright answers.
C1_PassThroughAtZero ==
    (pc = "image done" /\ call.angle = 0)
        => (ret.err = "" /\ ret.val = RawBytes(call.p, 0))

\* C3: for a non-zero angle the canvas made by rotateImage is (width, height)
\* when |angle| <= 5 and (height, width) when |angle - 90| <= 5 or
\* |angle + 90| <= 5, the bands being read on the caller's angle while
\* rotateImage is given its negation.
C3_CanvasTiers ==
    (pc = "image done" /\ call.angle # 0)
        => /\ ret.fixed.id = "rot"
           /\ ret.fixed.rot = -call.angle
           /\ Abs(call.angle) <= 5
                => /\ ret.fixed.Width = call.p.Width
                   /\ ret.fixed.Height = call.p.Height
           /\ (Abs(call.angle - 90) <= 5 \/ Abs(call.angle + 90) <= 5)
                => /\ ret.fixed.Width = call.p.Height
                   /\ ret.fixed.Height = call.p.Width

\* An angle on the boundary of the quarter-turn band, negated on the way in,
\* gets the swapped canvas.
C3_Witness ==
    /\ pc = "image done"
    /\ call.angle = 85
    /\ call.p.Width # call.p.Height
    /\ ret.fixed.Width = call.p.Height
    /\ ret.fixed.Height = call.p.Width

\* C4: for an angle outside both 5-degree bands the canvas is never smaller
\* than the exact bounding box |w cos| + |h sin| by |w sin| + |h cos| of the
\* rotated image.
C4_CoversBoundingBox ==
    (pc = "image done" /\ call.angle # 0 /\ ~InBand(call.angle))
        => /\ ret.fixed.Width * Micro >=
                call.p.Width * cosA(call.angle) + call.p.Height * sinA(call.angle)
           /\ ret.fixed.Height * Micro >=
                call.p.Width * sinA(call.angle) + call.p.Height * cosA(call.angle)

-----------------------------------------------------------------------------
(* Properties of IsScanned (SpecClassify) *)

PageLooksScanned(p) ==
    /\ p.nimg = 1
    /\ p.Width * p.Height >= 800 * 600
    /\ p.text = ""

\* C5: when no collaborator fails, IsScanned answers true exactly when every
\* page has one embedded image of at least 800*600 pixels and no text.
C5_Classifier ==
    (/\ pc = "classify done"
     /\ file.fault = "none"
     /\ \A i \in 1..Len(file.pages) : file.pages[i].text # "ERR")
        => /\ scanned.err = ""
           /\ scanned.val <=> \A i \in 1..Len(file.pages) : PageLooksScanned(file.pages[i])

C5_Witness ==
    /\ pc = "classify done"
    /\ Len(file.pages) >= 2
    /\ scanned.val
    /\ scanned.err = ""

\* C6 as stated: whenever image enumeration fails, or text extraction fails
\* on any page, IsScanned returns an error, whatever the other pages hold.
C6_AnyFailureIsAnError ==
    (/\ pc = "classify done"
     /\ \/ file.fault = "images"
        \/ \E i \in 1..Len(file.pages) : file.pages[i].text = "ERR")
        => scanned.err # ""

ImagesPass(f) ==
    \A i \in 1..Len(f.pages) :
        f.pages[i].nimg = 1 /\ f.pages[i].Width * f.pages[i].Height >= 800 * 600

\* The first page with text, or whose text extraction fails.
FirstTextPage(f) ==
    CHOOSE i \in 1..Len(f.pages) :
        /\ f.pages[i].text # ""
        /\ \A j \in 1..(i - 1) : f.pages[j].text = ""

\* C6 amended: IsScanned returns an error when image enumeration fails, and
\* when text extraction fails on a page that is reached, that is when every
\* page passed the image checks and every earlier page has no text; when a
\* page fails an image check or an earlier page has text, it answers false
\* with no error and the failing page is never asked for its text.
C6_ReachedFailureIsAnError ==
    pc = "classify done"
        => /\ file.fault = "images" => (scanned.err # "" /\ ~scanned.val)
           /\ (/\ file.fault = "none"
               /\ \E k \in 1..Len(file.pages) : file.pages[k].text = "ERR")
                => LET first == file.pages[FirstTextPage(file)].text
                   IN  /\ (ImagesPass(file) /\ first = "ERR")
                            => (scanned.err # "" /\ ~scanned.val)
                       /\ (~ImagesPass(file) \/ first = "t")
                            => (scanned.err = "" /\ ~scanned.val)

C6_Witness ==
    /\ pc = "classify done"
    /\ Len(file.pages) >= 2
    /\ file.pages[1].text = ""
    /\ file.pages[2].text = "ERR"
    /\ scanned.err = "Text"

-----------------------------------------------------------------------------
(* Properties of PageAngles and Straighten (SpecLib) *)

\* Pages (counted from 1) whose image cannot be obtained: the extraction
\* fails, returns a count other than 1, an unreadable stream, or bytes that
\* do not decode.
BadPages(f) == {i \in 1..Len(f.pages) : f.pages[i].ext # "ok"}

FirstBadPage(f) == CHOOSE i \in BadPages(f) : \A j \in BadPages(f) : i <= j

\* The calls of one kind in the log, as the sequence of their page indexes.
RECURSIVE PagesOf(_, _)
PagesOf(lg, op) ==
    IF lg = <<>> THEN <<>>
    ELSE IF lg[1].op = op THEN <<lg[1].page>> \o PagesOf(Tail(lg), op)
    ELSE PagesOf(Tail(lg), op)

UpTo(n) == [i \in 1..n |-> i - 1]

\* C7: PageAngles visits the pages in increasing index; on success it returns
\* NumPages angles, the i-th being the estimate for page i; at the first page
\* whose image cannot be obtained it returns an error and no angle list, and
\* no later page is extracted or estimated.
C7_PageAnglesInOrder ==
    pc = "angles done"
        => IF BadPages(file) = {}
           THEN /\ angles.err = "" /\ ~angles.nil
                /\ Len(angles.val) = doc.NumPages
                /\ \A i \in 1..doc.NumPages : angles.val[i] = file.pages[i].est90
                /\ PagesOf(log, "extract") = UpTo(doc.NumPages)
                /\ PagesOf(log, "estimate") = UpTo(doc.NumPages)
           ELSE /\ angles.err # "" /\ angles.nil /\ angles.val = <<>>
                /\ PagesOf(log, "extract") = UpTo(FirstBadPage(file))
                /\ PagesOf(log, "estimate") = UpTo(FirstBadPage(file) - 1)

\* A failure on a page that has both an earlier and a later page.
C7_Witness ==
    /\ pc = "angles done"
    /\ angles.err # ""
    /\ BadPages(file) # {}
    /\ 1 < FirstBadPage(file)
    /\ FirstBadPage(file) < doc.NumPages

\* C8: when every page succeeds, StraightenedImages returns NumPages images,
\* the i-th made from page i with pageAngles[i], and Straighten hands them to
\* the assembler in that order: the output has one page per input page, in
\* the input's order.
C8_PagesKeptInOrder ==
    (pc = "straighten done" /\ images.err = "")
        => /\ Len(images.val) = doc.NumPages
           /\ \A i \in 1..doc.NumPages :
                /\ images.val[i].page = i - 1
                /\ images.val[i].rot = -angles.val[i]
           /\ straight.err = "" => straight.val = images.val

C8_Witness ==
    /\ pc = "straighten done"
    /\ straight.err = ""
    /\ Len(straight.val) >= 2
    /\ angles.val[1] # angles.val[2]
    /\ straight.val[1].page = 0
    /\ straight.val[2].page = 1

-----------------------------------------------------------------------------
(* Properties of the command-line tools (Spec) *)

Transforms == {i \in 1..Len(log) : log[i].op = "transform"}

Estimate(pageIdx) == file.pages[pageIdx + 1].est90

C9_ThreePageScenario ==
    (/\ tool = "straighten" /\ pc = "exit" /\ exit = "ok"
     /\ Len(file.pages) = 3
     /\ [i \in 1..3 |-> file.pages[i].est90] = <<0, 91, 0>>)
        => /\ angles.val = <<0, 1, 0>>
           /\ images.val[1] = RawBytes(file.pages[1], 0)
           /\ images.val[3] = RawBytes(file.pages[3], 2)
           /\ images.val[2].kind = "jpeg"
           /\ images.val[2].rot = -1
           /\ images.val[2].Width = file.pages[2].Width
           /\ images.val[2].Height = file.pages[2].Height
           /\ [i \in 1..Len(straight.val) |-> straight.val[i].page] = <<0, 1, 2>>

\* C10: when a tool returns, every Document it opened has had its handles
\* released exactly once.
C10_HandlesReleasedOnce ==
    pc = "exit"
        => \A i \in 1..Len(handles) :
              /\ handles[i].fz = 1
              /\ handles[i].file = IF handles[i].fileOpen THEN 1 ELSE 0


\* The single-file tool ran to the end of its pipeline on a scan with no
\* step failing: it returned normally, after the pages were found straight or
\* after writing.
PipelineSucceeded ==
    /\ tool = "straighten" /\ pc = "exit"
    /\ scanned.val /\ scanned.err = ""
    /\ exit \in {"ok", "already straight"}
    /\ file.fault = "none"

SomeAngleNonZero == \E i \in 1..Len(file.pages) : file.pages[i].est90 # 0

\* C11: for a scan whose pipeline succeeds the single-file tool writes
\* straightened.pdf if and only if some angle returned by PageAngles is not
\* zero; when every angle is zero it reports "already straight" and writes
\* no file.
C11_WritesIffSomeAngleNonZero ==
    PipelineSucceeded
        => /\ SomeAngleNonZero <=> files = << <<"straightened.pdf">> >>
           /\ SomeAngleNonZero <=> exit = "ok"
           /\ ~SomeAngleNonZero => (exit = "already straight" /\ files = <<>>)

\* A file is written for a scan with a straight page and a skewed one.
C11_Witness ==
    /\ PipelineSucceeded
    /\ Len(file.pages) >= 2
    /\ file.pages[1].est90 = 0
    /\ file.pages[2].est90 # 0
    /\ files = << <<"straightened.pdf">> >>


IsPrefix(s, t) == Len(s) <= Len(t) /\ SubSeq(t, 1, Len(s)) = s

\* C12 as stated: a run of either tool that aborts on an error has left no
\* output file, not even, in the batch tool, for the documents before the
\* failing one.
C12_FatalErrorsLeaveNoOutput ==
    (pc = "exit" /\ exit \in {"panic", "error checking"}) => files = <<>>

\* C12 as the code has it: the step that fails ends the run and writes
\* nothing for its document, except that a failing write leaves the pages
\* written before it; the single-file tool that aborts has written nothing,
\* while the batch tool keeps every file of the earlier documents. A failing
\* write of the single-file tool ends the run as a success.
C12_FailingStepWritesNothing ==
    [][/\ IsPrefix(files, files')
       /\ (tool = "straighten" /\ pc' = "exit"
             /\ exit' \in {"panic", "error checking"})
            => files' = <<>>
       /\ (tool = "straighten" /\ pc = "straightening" /\ file.fault = "write"
             /\ straight'.err = "")
            => exit' = "ok"
       /\ (tool = "dump" /\ exit' = "panic")
            => /\ pc' = "exit"
               /\ IF images'.err = "" /\ file'.fault = "write" /\ pc = "angles"
                  THEN Len(files') - Len(files) < Len(images'.val)
                  ELSE files' = files]_vars

\* The batch tool has panicked on a document after writing the pages of an
\* earlier one.
C12_Witness ==
    /\ tool = "dump" /\ pc = "exit" /\ exit = "panic"
    /\ remaining < MaxFiles
    /\ file.fault # "write"
    /\ Len(files) > 0


\* C13: for a non-zero angle straightenImage rotates the decoded image by the
\* negated angle into a new canvas, hands that canvas to MakeUpright, and
\* returns freshly encoded bytes of what MakeUpright gave back, never the raw
\* bytes, also when MakeUpright gave the canvas back unchanged; a failure of
\* MakeUpright or of the encoder gives an error and no bytes.
C13_NonZeroAngleReencodes ==
    (pc = "image done" /\ call.angle # 0)
        => /\ ret.fixed.id = "rot"
           /\ ret.fixed # Decompress(call.p, 0)
           /\ ret.fixed.rot = -call.angle
           /\ ret.val # RawBytes(call.p, 0)
           /\ IF call.p.up = "err"
              THEN ret.err = "MakeUpright" /\ ret.val = NoBytes
              ELSE IF call.p.enc = "err"
              THEN ret.err = "Compress" /\ ret.val = NoBytes
              ELSE /\ ret.err = ""
                   /\ ret.val.kind = "jpeg"
                   /\ ret.val.rot = -call.angle
                   /\ ret.val.Width = ret.fixed.Width
                   /\ ret.val.Height = ret.fixed.Height
                   /\ ret.val.upright = (call.p.up = "changed")

\* A skewed page that MakeUpright leaves as it is comes back re-encoded.
C13_Witness ==
    /\ pc = "image done"
    /\ call.angle \notin {0, 90, -90}
    /\ call.p.up = "same"
    /\ ret.err = ""
    /\ ret.val.kind = "jpeg"


\* C14: no failure is discarded: when os.Open fails on the source,
\* NewDocumentFromFile returns an error (which both tools treat as fatal), and
\* when writing straightened.pdf fails the single-file tool does not end as a
\* success.
C14_NoErrorDiscarded ==
    /\ (file.fault = "open" /\ pc # "start")
          => (pc = "exit" /\ exit = "panic")
    /\ (tool = "straighten" /\ pc = "exit" /\ file.fault = "write"
          /\ ~straight.nil /\ straight.err = "")
          => exit # "ok"


\* The page a failed pass stopped at: the page of its last call, or NumPages
\* when every page went through and the assembly failed; -1 for a success.
FailedAt(err, lg, n) ==
    IF err = "" THEN -1
    ELSE IF err = "ImportImages" \/ lg = <<>> THEN n
    ELSE lg[Len(lg)].page

\* PageAngles(maxAngle, false) followed by Straighten on its angles.
TwoPass ==
    LET a == PageAngles(doc, file, 25, FALSE)
        r == Straighten(doc, file, a.val)
    IN  IF a.err # ""
        THEN [err |-> a.err, val |-> <<>>, page |-> FailedAt(a.err, a.log, doc.NumPages)]
        ELSE [err |-> r.pdf.err, val |-> r.pdf.val,
              page |-> FailedAt(r.pdf.err, r.images.log, doc.NumPages)]

OnePassFailedAt == FailedAt(straight.err, log, doc.NumPages)

OnePassNever90 ==
    \A i \in 1..Len(log) :
        log[i].op \in {"estimate", "transform"}
            => log[i].angle = file.pages[log[i].page + 1].est

\* C15 as stated: StraightenOnePass returns what PageAngles(maxAngle, false)
\* followed by Straighten returns, the same bytes or an error at the same
\* page, and estimates every angle without the 90-degree hypothesis.
C15_OnePassSameAsTwoPass ==
    pc = "onepass done"
        => /\ straight.err = TwoPass.err
           /\ straight.val = TwoPass.val
           /\ OnePassFailedAt = TwoPass.page
           /\ OnePassNever90

\* C15 as the code has it: the two agree on success, with the same bytes, and
\* on whether they fail; StraightenOnePass fails at the first page whose
\* extraction or transformation fails, which is never after the page the
\* two-pass sequence fails at, and is the same page with the same error when
\* every page's image can be extracted; no angle is estimated with the
\* 90-degree hypothesis.
C15_OnePassAgreesOnSuccess ==
    pc = "onepass done"
        => /\ (straight.err = "") <=> (TwoPass.err = "")
           /\ straight.err = "" => straight.val = TwoPass.val
           /\ straight.err # "" => OnePassFailedAt <= TwoPass.page
           /\ BadPages(file) = {}
                => (straight.err = TwoPass.err /\ OnePassFailedAt = TwoPass.page)
           /\ OnePassNever90

\* A document straightened in one pass that has a page whose estimate with
\* the 90-degree hypothesis differs.
C15_Witness ==
    /\ pc = "onepass done"
    /\ straight.err = ""
    /\ Len(straight.val) >= 2
    /\ \E i \in 1..Len(file.pages) : file.pages[i].est # file.pages[i].est90
    /\ \E i \in 1..Len(file.pages) : file.pages[i].est = 0

====
